---- MODULE Spec2Model ----
(***************************************************************************)
(* AI Hype-Watch (src/src/index.ts): the Scout (fetchNews), the Gatekeeper *)
(* (validateRelevance), the Investigator (analyzeMotive) and the           *)
(* Orchestrator (runMAS), with the two file caches they share.             *)
(*                                                                         *)
(* The process is started several times over the same cache directory;    *)
(* between two starts time passes and the configuration (the number of    *)
(* articles asked for, the prompt text) may be edited.  Inside one start  *)
(* the program is sequential: pc is the position of its single thread, and *)
(* every await of the source is a step of its own.                        *)
(*                                                                         *)
(* Strings are sequences of tokens; a falsy string value of the source    *)
(* (undefined, null, "") is the empty sequence.  JSON values are tagged    *)
(* records: [t |-> "str"|"num"|"bool"|"null"|"obj"|"arr"|...].            *)
(***************************************************************************)
EXTENDS Integers, Sequences, FiniteSets, TLC

(***************************************************************************)
(* Bounds of the model.                                                    *)
(***************************************************************************)
MaxRuns == 2          \* starts of the process over one cache directory
MaxRequested == 2     \* largest NEWS_MAX_REQUESTS a start is configured with
BatchSize == 2        \* most articles the provider puts on one page
MaxTicks == 2         \* how often half a TTL passes between starts

(***************************************************************************)
(* Program constants.                                                      *)
(***************************************************************************)
CACHE_TTL == 24       \* 24 * 60 * 60 * 1000 ms, counted in hours
MAX_PAGES == 3

(***************************************************************************)
(* Strings.                                                                *)
(***************************************************************************)
\* a || b on strings
Or(a, b) == IF a = <<>> THEN b ELSE a

\* crypto.createHash('md5').update(s).digest('hex'): one token of fixed
\* width that is determined by s; distinct inputs give distinct digests
\* (the hash is taken to be collision-free).
MD5(s) == [md5 |-> s]

\* topic.replace(/\s+/g, '_'): every run of whitespace tokens becomes one "_"
RECURSIVE ReplaceSpaces(_)
ReplaceSpaces(s) ==
  IF s = <<>> THEN <<>>
  ELSE IF Head(s) = " "
       THEN IF Len(s) > 1 /\ s[2] = " "
            THEN ReplaceSpaces(Tail(s))
            ELSE <<"_">> \o ReplaceSpaces(Tail(s))
       ELSE <<Head(s)>> \o ReplaceSpaces(Tail(s))

\* the one topic runMAS asks for
Topic == <<"AI", " ", "business", " ", "use", " ", "cases">>

\* fetchNews: cachePath
ListCachePath(topic) == ReplaceSpaces(topic) \o <<".json">>

(***************************************************************************)
(* JSON.                                                                   *)
(* A JavaScript value and a JSON text are both trees.  The text has the    *)
(* number literal "big" (such as 1e999) that the value does not have, and  *)
(* the value has the number "inf" (Infinity) that the text does not have.  *)
(***************************************************************************)
JNull == [t |-> "null"]
JStr(s) == [t |-> "str", v |-> s]
JNum(n) == [t |-> "num", v |-> n]
JBool(b) == [t |-> "bool", v |-> b]
JBig == [t |-> "big"]
JInf == [t |-> "inf"]
JObj(f) == [t |-> "obj", f |-> f]
JArr(a) == [t |-> "arr", a |-> a]
Garbage == [t |-> "garbage"]        \* a text that is not JSON
SyntaxError == [t |-> "SyntaxError"]
NoFields == [k \in {} |-> JNull]
EmptyObject == JObj(NoFields)       \* the text "{}" and the value {}

\* JSON.parse(text)
RECURSIVE JSONParse(_)
JSONParse(text) ==
  CASE text.t = "garbage" -> SyntaxError
    [] text.t = "big" -> JInf
    [] text.t = "obj" -> JObj([k \in DOMAIN text.f |-> JSONParse(text.f[k])])
    [] text.t = "arr" -> JArr([i \in DOMAIN text.a |-> JSONParse(text.a[i])])
    [] OTHER -> text

\* JSON.stringify(value, null, 2): a number that is not finite is written null
RECURSIVE JSONStringify(_)
JSONStringify(value) ==
  CASE value.t = "inf" -> JNull
    [] value.t = "obj" -> JObj([k \in DOMAIN value.f |-> JSONStringify(value.f[k])])
    [] value.t = "arr" -> JArr([i \in DOMAIN value.a |-> JSONStringify(value.a[i])])
    [] OTHER -> value

\* value.name of a JavaScript value: "TypeError" on null, undefined when absent
Undefined == [t |-> "undefined"]
TypeError == [t |-> "TypeError"]
Field(value, name) ==
  IF value.t \in {"null", "undefined"} THEN TypeError
  ELSE IF value.t = "obj" /\ name \in DOMAIN value.f THEN value.f[name]
  ELSE Undefined

(***************************************************************************)
(* Articles.                                                               *)
(***************************************************************************)
\* what the provider has: the third repeats the first one's URL under
\* another title, the second has no description
ProviderArticles == {
  [title |-> <<"t1">>, url |-> <<"u1">>, source |-> <<"s1">>, description |-> <<"d1">>],
  [title |-> <<"t2">>, url |-> <<"u2">>, source |-> <<"s2">>, description |-> <<>>],
  [title |-> <<"t3">>, url |-> <<"u1">>, source |-> <<"s1">>, description |-> <<"d3">>] }

\* interface NewsArticle, as fetchNews builds it from a provider article
NewsArticle(a) ==
  [title |-> a.title, url |-> a.url, source |-> a.source,
   description |-> Or(a.description, <<>>)]

\* a NewsArticle as a JavaScript value, and back
ArticleValue(article) ==
  JObj([title |-> JStr(article.title), url |-> JStr(article.url),
        source |-> JStr(article.source), description |-> JStr(article.description)])
ArticleOf(value) ==
  [title |-> value.f.title.v, url |-> value.f.url.v,
   source |-> value.f.source.v, description |-> value.f.description.v]
ArticlesValue(list) == JArr([i \in DOMAIN list |-> ArticleValue(list[i])])
ArticlesOf(value) == [i \in DOMAIN value.a |-> ArticleOf(value.a[i])]

\* array.slice(0, n) for n >= 0
Slice(list, n) == SubSeq(list, 1, IF n < Len(list) THEN n ELSE Len(list))

(***************************************************************************)
(* The language model.  One call ends in one of these outcomes.            *)
(***************************************************************************)
CallError == [t |-> "error"]          \* client.chat.completions.create rejects
NoChoices == [t |-> "nochoices"]      \* completion.choices is empty
NoContent == [t |-> "nocontent"]      \* message.content is null or ""
Completion(content) == [t |-> "completion", content |-> content]

\* content || "{}"
OrEmptyObject(content) == IF content = NoContent THEN EmptyObject ELSE content

Return(v) == [kind |-> "return", value |-> v]
Throw(e) == [kind |-> "throw", error |-> e]

\* what the Gatekeeper's model may answer
GatekeeperContents == {
  NoContent, Garbage, JNull,
  JObj([is_business_case |-> JStr(<<"true">>)]),
  JObj([is_business_case |-> JBool(FALSE)]),
  JObj([is_business_case |-> JBool(TRUE)]) }
GatekeeperOutcomes ==
  {CallError} \cup {Completion(c) : c \in GatekeeperContents}

\* validateRelevance: the try block
ValidateRelevanceTry(outcome) ==
  IF outcome.t = "error" THEN Throw("APIError")
  ELSE IF outcome.t = "nochoices" THEN Throw("TypeError")
  ELSE LET result == JSONParse(OrEmptyObject(outcome.content))
       IN IF result = SyntaxError THEN Throw("SyntaxError")
          ELSE IF Field(result, "is_business_case") = TypeError THEN Throw("TypeError")
          ELSE Return(Field(result, "is_business_case") = JBool(TRUE))

\* as a fail-open catch would do
validateRelevanceFailOpen(outcome) ==
  LET r == ValidateRelevanceTry(outcome)
  IN IF r.kind = "throw" THEN Return(TRUE) ELSE r

\* validateRelevance: catch (e) { return false }
validateRelevance(outcome) ==
  LET r == ValidateRelevanceTry(outcome)
  IN IF r.kind = "throw" THEN Return(FALSE) ELSE r

\* what the Investigator's model may answer
FullAnalysis(score) ==
  JObj([summary |-> JStr(<<"sum">>), seller_description |-> JStr(<<"sells">>),
        hidden_motive |-> JStr(<<"motive">>), motive_score |-> score,
        critique |-> JStr(<<"crit">>)])
InvestigatorContents ==
  {NoContent, Garbage, EmptyObject, FullAnalysis(JNum(7)), FullAnalysis(JBig)}
InvestigatorOutcomes ==
  {CallError, NoChoices} \cup {Completion(c) : c \in InvestigatorContents}

\* analyzeMotive, lines 237-242: the parse of the completion
ParseAnalysis(outcome) ==
  IF outcome.t = "nochoices" THEN Throw("Failed to parse LLM JSON response")
  ELSE LET analysisResult == JSONParse(OrEmptyObject(outcome.content))
       IN IF analysisResult = SyntaxError
          THEN Throw("Failed to parse LLM JSON response")
          ELSE Return(analysisResult)

(***************************************************************************)
(* The prompt and the analysis cache key.                                  *)
(***************************************************************************)
\* the system prompt as the source has it, and as an edit of the source
\* would have it
SourcePrompt == <<"skeptical investigator">>
SystemPrompts == {SourcePrompt, <<"skeptical investigator", "v2">>}

userPrompt(article) ==
  <<"Article Title:">> \o article.title \o <<"Source:">> \o article.source
  \o <<"Description:">> \o article.description \o <<"URL:">> \o article.url
  \o <<"return a JSON object with the following fields">>

\* as a key made of the article alone would be
articleHashWithoutPrompt(systemPrompt, article) ==
  MD5(Or(article.url, article.title))

promptHash(systemPrompt, article) == MD5(systemPrompt \o userPrompt(article))
articleHash(systemPrompt, article) ==
  MD5(Or(article.url, article.title) \o <<promptHash(systemPrompt, article)>>)
AnalysisCachePath(systemPrompt, article) ==
  <<"analysis_", articleHash(systemPrompt, article), ".json">>

\* the object analyzeMotive writes to the analysis cache
AnalysisCacheEntry(article, analysisResult, timestamp) ==
  JObj([title |-> JStr(article.title), url |-> JStr(article.url),
        analysis |-> analysisResult, timestamp |-> JNum(timestamp)])

(***************************************************************************)
(* The Reporter.                                                           *)
(***************************************************************************)
\* interface AnalysisResult, as runMAS pushes it
AnalysisResult(article, analysis) ==
  [title |-> article.title, url |-> article.url, source |-> article.source,
   analysis |-> analysis]

AnalysisTextFields == {"summary", "seller_description", "hidden_motive", "critique"}

\* generateHTMLReport's rows.map goes through for this result: the
\* destructuring needs an object, marked.parse needs four strings
RowRenders(res) ==
  /\ res.analysis.t = "obj"
  /\ \A k \in AnalysisTextFields :
        k \in DOMAIN res.analysis.f /\ res.analysis.f[k].t = "str"

\* value ?? fallback
NullishOr(value, fallback) ==
  IF value = Undefined \/ value = JNull THEN fallback ELSE value

\* score >= n for a score that is a number, Infinity included
GreaterEqual(score, n) ==
  CASE score.t = "num" -> score.v >= n
    [] score.t = "inf" -> TRUE
    [] OTHER -> FALSE

\* as a tier that starts above 8 would be
scoreClassAboveEight(motive_score) ==
  LET score == NullishOr(motive_score, JNum(0))
  IN IF GreaterEqual(score, 9) THEN "high-risk"
     ELSE IF GreaterEqual(score, 4) THEN "med-risk"
     ELSE "low-risk"

\* lines 315-319
scoreClass(motive_score) ==
  LET score == NullishOr(motive_score, JNum(0))
  IN IF GreaterEqual(score, 8) THEN "high-risk"
     ELSE IF GreaterEqual(score, 4) THEN "med-risk"
     ELSE "low-risk"

\* `${value}` in a template literal: the text that writes the value
TemplateString(value) == [t |-> "text", of |-> value]
NotAvailable == JStr(<<"N/A">>)

\* line 337: what the badge shows
ScoreBadge(motive_score) ==
  IF motive_score # Undefined /\ motive_score # JNull
  THEN TemplateString(motive_score)
  ELSE NotAvailable

\* Markup is a sequence of tokens: tags, attributes, words.
OpenScript == "<script>"
CloseScript == "</script>"
CloseScriptSpaced == "</script >"    \* an end tag to the browser as well
OnAttribute == "onload=\"x\""
JavascriptScheme == "javascript:"
ScriptTags == {OpenScript, CloseScript, CloseScriptSpaced}

\* marked.parse(text): a text that starts with <script is an HTML block and
\* goes through as it is; any other text becomes a paragraph in which tags go
\* through and the quotes of words are escaped
MarkedInline(token) == IF token = OnAttribute THEN "onload=&quot;x&quot;" ELSE token
MarkedParse(text) ==
  IF text # <<>> /\ Head(text) = OpenScript THEN text
  ELSE <<"<p>">> \o [i \in DOMAIN text |-> MarkedInline(text[i])] \o <<"</p>">>

\* .replace(/<script\b[^>]*>([\s\S]*?)<\/script>/gim, ""): from the left, every
\* <script> that has a </script> after it goes with everything up to the
\* nearest one; the result is not scanned again
RECURSIVE RemoveScriptElements(_)
RemoveScriptElements(html) ==
  IF html = <<>> THEN <<>>
  ELSE LET closers == {i \in 2..Len(html) : html[i] = CloseScript}
       IN IF Head(html) = OpenScript /\ closers # {}
          THEN LET end == CHOOSE i \in closers : \A j \in closers : i <= j
               IN RemoveScriptElements(SubSeq(html, end + 1, Len(html)))
          ELSE <<Head(html)>> \o RemoveScriptElements(Tail(html))

\* lines 264-269
sanitizeHtml(html) ==
  LET NotOnAttribute(token) == token # OnAttribute
      NotJavascript(token) == token # JavascriptScheme
  IN SelectSeq(SelectSeq(RemoveScriptElements(html), NotOnAttribute), NotJavascript)

\* lines 312-340: one row of the table
Row(res) ==
  [title |-> res.title, source |-> res.source, url |-> res.url,
   formattedAnalysis |->
     [k \in AnalysisTextFields |-> sanitizeHtml(MarkedParse(res.analysis.f[k].v))],
   scoreClass |-> scoreClass(Field(res.analysis, "motive_score")),
   badge |-> ScoreBadge(Field(res.analysis, "motive_score"))]

(***************************************************************************)
(* State.                                                                  *)
(***************************************************************************)
VARIABLES
  pc,                \* position of the one thread; "idle": no process runs
  runs, ticks, now,  \* starts so far, half TTLs passed, Date.now() in hours
  \* CONFIG and the prompt text of the running process
  newsMaxRequests, systemPrompt,
  \* the cache directory: the article lists, the analyses
  listCache, analysisCache,
  \* fetchNews
  page, collectedArticles, seenUrls, pageArticles, completion, isRelevant,
  \* runMAS
  articles, index, finalResults,
  \* what the process leaves behind
  reportCalls, reportFile, exitStatus,
  \* history of the running process, read by the properties only
  fetchLog, providerRequests, gatekeeperCalls, analysed, inv, llmCalls,
  sleeps, liveReturns,
  \* what fetchNews did in the process that ran before this one
  previous

configVars == <<newsMaxRequests, systemPrompt>>
startVars == <<configVars, previous>>
cacheVars == <<listCache, analysisCache>>
fetchVars == <<page, collectedArticles, seenUrls, pageArticles, completion,
               isRelevant>>
loopVars == <<articles, index, finalResults>>
exitVars == <<reportCalls, reportFile, exitStatus>>
fetchHistory == <<fetchLog, providerRequests, gatekeeperCalls>>
loopHistory == <<analysed, inv, llmCalls, sleeps, liveReturns>>
vars == <<pc, runs, ticks, now, startVars, cacheVars, fetchVars, loopVars,
          exitVars, fetchHistory, loopHistory>>

None == [kind |-> "none"]
NoInvocation == [state |-> "none"]
NoFetch == [path |-> "none"]

\* fs.existsSync / fs.readFileSync / fs.writeFileSync on a directory
FilesAt(dir, path) == {f \in dir : f.path = path}
ExistsSync(dir, path) == FilesAt(dir, path) # {}
FileAt(dir, path) == CHOOSE f \in dir : f.path = path
WriteFileSync(dir, path, content, mtimeMs) ==
  (dir \ FilesAt(dir, path))
    \cup {[path |-> path, content |-> content, mtimeMs |-> mtimeMs]}

Init ==
  /\ pc = "idle" /\ runs = 0 /\ ticks = 0 /\ now = 0
  /\ newsMaxRequests = 0 /\ systemPrompt = <<>>
  /\ listCache = {} /\ analysisCache = {}
  /\ page = 0 /\ collectedArticles = <<>> /\ seenUrls = {} /\ pageArticles = <<>>
  /\ completion = None /\ isRelevant = None
  /\ articles = <<>> /\ index = 0 /\ finalResults = <<>>
  /\ reportCalls = <<>> /\ reportFile = None /\ exitStatus = None
  /\ fetchLog = NoFetch /\ providerRequests = <<>> /\ gatekeeperCalls = 0
  /\ analysed = <<>> /\ inv = NoInvocation /\ llmCalls = 0 /\ sleeps = 0
  /\ liveReturns = {} /\ previous = NoFetch

(***************************************************************************)
(* Between two starts.                                                     *)
(***************************************************************************)
\* half a TTL passes; before the first start there is nothing that ages
Tick ==
  /\ pc = "idle" /\ runs > 0 /\ ticks < MaxTicks
  /\ ticks' = ticks + 1
  /\ now' = now + CACHE_TTL \div 2
  /\ UNCHANGED <<pc, runs, startVars, cacheVars, fetchVars, loopVars, exitVars,
                 fetchHistory, loopHistory>>

\* the process is started: CONFIG is read, runMAS() is called; the first
\* start runs the source as it is, a later one possibly an edited prompt
StartRun(n, prompt) ==
  /\ pc = "idle" /\ runs < MaxRuns
  /\ runs = 0 => prompt = SourcePrompt
  /\ pc' = "fetchNews"
  /\ newsMaxRequests' = n /\ systemPrompt' = prompt
  /\ page' = 0 /\ collectedArticles' = <<>> /\ seenUrls' = {} /\ pageArticles' = <<>>
  /\ completion' = None /\ isRelevant' = None
  /\ articles' = <<>> /\ index' = 0 /\ finalResults' = <<>>
  /\ reportCalls' = <<>> /\ reportFile' = None /\ exitStatus' = None
  /\ fetchLog' = NoFetch /\ providerRequests' = <<>> /\ gatekeeperCalls' = 0
  /\ analysed' = <<>> /\ inv' = NoInvocation /\ llmCalls' = 0 /\ sleeps' = 0
  /\ previous' = IF fetchLog.path = "none" THEN NoFetch
                  ELSE [path |-> fetchLog.path, result |-> fetchLog.result,
                        requested |-> newsMaxRequests, articles |-> articles]
  /\ UNCHANGED <<runs, ticks, now, cacheVars, liveReturns>>

\* process.exit(status), or the end of the event loop
Exit(status) ==
  /\ exitStatus' = [kind |-> "exit", code |-> status]
  /\ pc' = "idle"
  /\ runs' = runs + 1

(***************************************************************************)
(* fetchNews.                                                              *)
(***************************************************************************)
\* as a check that asks for more articles than requested would do
CacheUsableStrictCount(dir, path, time, wanted) ==
  /\ ExistsSync(dir, path)
  /\ time - FileAt(dir, path).mtimeMs < CACHE_TTL
  /\ Len(ArticlesOf(JSONParse(FileAt(dir, path).content))) > wanted

\* as a check that looks at the count alone would do
CacheUsableIgnoringAge(dir, path, time, wanted) ==
  /\ ExistsSync(dir, path)
  /\ Len(ArticlesOf(JSONParse(FileAt(dir, path).content))) >= wanted

\* lines 92-97: the entry is there and fresh, and JSON.parse throws on it
FreshReadThrows(dir, path, time) ==
  /\ ExistsSync(dir, path)
  /\ time - FileAt(dir, path).mtimeMs < CACHE_TTL
  /\ JSONParse(FileAt(dir, path).content) = SyntaxError

\* lines 92-101: the entry is there, fresh, and holds enough articles
CacheUsable(dir, path, time, wanted) ==
  /\ ExistsSync(dir, path)
  /\ time - FileAt(dir, path).mtimeMs < CACHE_TTL
  /\ Len(ArticlesOf(JSONParse(FileAt(dir, path).content))) >= wanted

\* lines 88-119: the cache is tried; paging is set up when it does not serve
FetchNewsCheckCache ==
  /\ pc = "fetchNews"
  /\ LET cachePath == ListCachePath(Topic)
         age == IF ExistsSync(listCache, cachePath)
                THEN now - FileAt(listCache, cachePath).mtimeMs
                ELSE 0
         usable == CacheUsable(listCache, cachePath, now, newsMaxRequests)
     IN IF FreshReadThrows(listCache, cachePath, now)
        THEN \* line 97 throws out of fetchNews, to runMAS's catch at line 413
             /\ fetchLog' = [path |-> "cache",
                             found |-> FilesAt(listCache, cachePath),
                             age |-> age, result |-> "throw", stop |-> "none"]
             /\ Exit(1)
             /\ UNCHANGED <<fetchVars, articles, reportCalls, reportFile>>
        ELSE /\ fetchLog' = [path |-> IF usable THEN "cache" ELSE "network",
                             found |-> FilesAt(listCache, cachePath),
                             age |-> age,
                             result |-> IF usable THEN "return" ELSE "pending",
                             stop |-> "none"]
             /\ IF usable
                THEN /\ articles' =
                          Slice(ArticlesOf(JSONParse(FileAt(listCache, cachePath).content)),
                                newsMaxRequests)
                     /\ pc' = "loop"
                     /\ UNCHANGED fetchVars
                ELSE /\ page' = 1 /\ collectedArticles' = <<>> /\ seenUrls' = {}
                     /\ pc' = "while"
                     /\ UNCHANGED <<pageArticles, completion, isRelevant, articles>>
             /\ UNCHANGED <<runs, exitVars>>
  /\ UNCHANGED <<ticks, now, startVars, cacheVars, index, finalResults,
                 providerRequests, gatekeeperCalls, loopHistory>>

\* what one request to the provider may bring
RECURSIVE SeqsUpTo(_, _)
SeqsUpTo(S, n) ==
  IF n = 0 THEN {<<>>}
  ELSE SeqsUpTo(S, n - 1)
         \cup {Append(q, x) : q \in {r \in SeqsUpTo(S, n - 1) : Len(r) = n - 1}, x \in S}
PageResponses ==
  {[t |-> "error"], [t |-> "noarticles"]}
    \cup {[t |-> "articles", articles |-> q] : q \in SeqsUpTo(ProviderArticles, BatchSize)}

\* as a loop without the break of line 143 would do
EnoughCollectedNever(collected, wanted) == FALSE

\* line 143: if (collectedArticles.length >= CONFIG.newsMaxRequests) break
EnoughCollected(collected, wanted) == Len(collected) >= wanted

\* as a loop that allows one page more would do
WhileConditionOneMorePage ==
  Len(collectedArticles) < newsMaxRequests /\ page <= MAX_PAGES + 1

\* line 121
WhileCondition == Len(collectedArticles) < newsMaxRequests /\ page <= MAX_PAGES

\* as a loop that goes on to the next page after a failed request would do
WhilePageSkipsFailure(response) ==
  /\ pc = "while" /\ WhileCondition
  /\ providerRequests' = Append(providerRequests, page)
  /\ IF response.t = "articles" /\ Len(response.articles) > 0
     THEN /\ pageArticles' = response.articles /\ pc' = "for"
          /\ UNCHANGED <<fetchLog, page>>
     ELSE IF response.t = "error"
     THEN /\ pageArticles' = <<>> /\ pc' = "while" /\ page' = page + 1
          /\ fetchLog' = [fetchLog EXCEPT !.stop = "error"]
     ELSE /\ pageArticles' = <<>> /\ pc' = "fetchEnd" /\ UNCHANGED page
          /\ fetchLog' = [fetchLog EXCEPT !.stop = "empty"]
  /\ UNCHANGED <<runs, ticks, now, startVars, cacheVars, collectedArticles,
                 seenUrls, completion, isRelevant, loopVars, exitVars,
                 gatekeeperCalls, loopHistory>>

\* lines 121-140, 164-167: one page is requested
WhilePage(response) ==
  /\ pc = "while" /\ WhileCondition
  /\ providerRequests' = Append(providerRequests, page)
  /\ IF response.t = "articles" /\ Len(response.articles) > 0
     THEN pageArticles' = response.articles /\ pc' = "for" /\ UNCHANGED fetchLog
     ELSE /\ pageArticles' = <<>> /\ pc' = "fetchEnd"
          /\ fetchLog' = [fetchLog EXCEPT
                           !.stop = IF response.t = "error" THEN "error" ELSE "empty"]
  /\ UNCHANGED <<runs, ticks, now, startVars, cacheVars, page, collectedArticles,
                 seenUrls, completion, isRelevant, loopVars, exitVars,
                 gatekeeperCalls, loopHistory>>

\* line 121: the loop ends
WhileExit ==
  /\ pc = "while" /\ ~WhileCondition
  /\ pc' = "fetchEnd"
  /\ fetchLog' = [fetchLog EXCEPT !.stop = "condition"]
  /\ UNCHANGED <<runs, ticks, now, startVars, cacheVars, fetchVars, loopVars,
                 exitVars, providerRequests, gatekeeperCalls, loopHistory>>

\* lines 142-143, 163: the page is through, or enough is collected
ForEnd ==
  /\ pc = "for"
  /\ pageArticles = <<>> \/ EnoughCollected(collectedArticles, newsMaxRequests)
  /\ pageArticles' = <<>>
  /\ page' = page + 1
  /\ pc' = "while"
  /\ UNCHANGED <<runs, ticks, now, startVars, cacheVars, collectedArticles,
                 seenUrls, completion, isRelevant, loopVars, exitVars,
                 fetchHistory, loopHistory>>

\* line 144: a URL seen before is passed over
ForSeen ==
  /\ pc = "for"
  /\ pageArticles # <<>> /\ ~EnoughCollected(collectedArticles, newsMaxRequests)
  /\ Head(pageArticles).url \in seenUrls
  /\ pageArticles' = Tail(pageArticles)
  /\ UNCHANGED <<pc, runs, ticks, now, startVars, cacheVars, page,
                 collectedArticles, seenUrls, completion, isRelevant, loopVars,
                 exitVars, fetchHistory, loopHistory>>

\* as a loop without the check of line 144 would do
ForValidateAnyUrl(outcome) ==
  /\ pc = "for"
  /\ pageArticles # <<>> /\ ~EnoughCollected(collectedArticles, newsMaxRequests)
  /\ seenUrls' = seenUrls \cup {Head(pageArticles).url}
  /\ gatekeeperCalls' = gatekeeperCalls + 1
  /\ completion' = outcome
  /\ isRelevant' = validateRelevance(outcome)
  /\ pc' = "validated"
  /\ UNCHANGED <<runs, ticks, now, startVars, cacheVars, page, collectedArticles,
                 pageArticles, loopVars, exitVars, fetchLog, providerRequests,
                 loopHistory>>

\* lines 145-155 and 56-82: the Gatekeeper is asked about a new URL, its
\* model answers, and validateRelevance settles
ForValidate(outcome) ==
  /\ pc = "for"
  /\ pageArticles # <<>> /\ ~EnoughCollected(collectedArticles, newsMaxRequests)
  /\ Head(pageArticles).url \notin seenUrls
  /\ seenUrls' = seenUrls \cup {Head(pageArticles).url}
  /\ gatekeeperCalls' = gatekeeperCalls + 1
  /\ completion' = outcome
  /\ isRelevant' = validateRelevance(outcome)
  /\ pc' = "validated"
  /\ UNCHANGED <<runs, ticks, now, startVars, cacheVars, page, collectedArticles,
                 pageArticles, loopVars, exitVars, fetchLog, providerRequests,
                 loopHistory>>

\* lines 155-162: fetchNews resumes with the Gatekeeper's verdict
ForPush ==
  /\ pc = "validated"
  /\ IF isRelevant.kind = "throw"
     THEN \* an exception here is caught at line 164
          /\ pageArticles' = <<>> /\ pc' = "fetchEnd"
          /\ fetchLog' = [fetchLog EXCEPT !.stop = "error"]
          /\ UNCHANGED collectedArticles
     ELSE /\ pageArticles' = Tail(pageArticles) /\ pc' = "for"
          /\ collectedArticles' =
               IF isRelevant.value
               THEN Append(collectedArticles, NewsArticle(Head(pageArticles)))
               ELSE collectedArticles
          /\ UNCHANGED fetchLog
  /\ completion' = None /\ isRelevant' = None
  /\ UNCHANGED <<runs, ticks, now, startVars, cacheVars, page, seenUrls, loopVars,
                 exitVars, providerRequests, gatekeeperCalls, loopHistory>>

\* as a fetchNews that returns the list without writing it would do
FetchNewsEndKeepsCache ==
  /\ pc = "fetchEnd"
  /\ IF Len(collectedArticles) = 0
     THEN /\ fetchLog' = [fetchLog EXCEPT !.result = "throw"]
          /\ Exit(1)
          /\ UNCHANGED <<listCache, articles>>
     ELSE /\ listCache' = listCache
          /\ articles' = collectedArticles
          /\ fetchLog' = [fetchLog EXCEPT !.result = "return"]
          /\ pc' = "loop"
          /\ UNCHANGED <<runs, exitStatus>>
  /\ UNCHANGED <<ticks, now, startVars, analysisCache, fetchVars, index,
                 finalResults, reportCalls, reportFile, providerRequests,
                 gatekeeperCalls, loopHistory>>

\* lines 170-177, and runMAS's catch at lines 413-417
FetchNewsEnd ==
  /\ pc = "fetchEnd"
  /\ IF Len(collectedArticles) = 0
     THEN /\ fetchLog' = [fetchLog EXCEPT !.result = "throw"]
          /\ Exit(1)
          /\ UNCHANGED <<listCache, articles>>
     ELSE /\ listCache' = WriteFileSync(listCache, ListCachePath(Topic),
                            JSONStringify(ArticlesValue(collectedArticles)), now)
          /\ articles' = collectedArticles
          /\ fetchLog' = [fetchLog EXCEPT !.result = "return"]
          /\ pc' = "loop"
          /\ UNCHANGED <<runs, exitStatus>>
  /\ UNCHANGED <<ticks, now, startVars, analysisCache, fetchVars, index,
                 finalResults, reportCalls, reportFile, providerRequests,
                 gatekeeperCalls, loopHistory>>

(***************************************************************************)
(* runMAS's loop and analyzeMotive.                                        *)
(***************************************************************************)
\* the loop's next turn
NextArticle ==
  /\ index' = index + 1
  /\ pc' = "loop"

\* as a fail-fast loop would do: the first analysis error ends the loop
CatchAnalysisErrorAbort ==
  /\ index' = Len(articles)
  /\ pc' = "loop"

\* lines 405-408: the error is logged, the loop goes on
CatchAnalysisError == NextArticle

\* as a lookup that never finds the entry would do
AnalysisCacheHitNever(dir, path) == FALSE

\* line 217: fs.existsSync(cachePath)
AnalysisCacheHit(dir, path) == ExistsSync(dir, path)

\* lines 386-391 and 209-226: the next article is taken up; analyzeMotive
\* answers from the cache, or calls the model
AnalyzeStart ==
  /\ pc = "loop" /\ index < Len(articles)
  /\ LET article == articles[index + 1]
         cachePath == AnalysisCachePath(systemPrompt, article)
         hit == AnalysisCacheHit(analysisCache, cachePath)
         cachedResult == JSONParse(FileAt(analysisCache, cachePath).content)
         ret == Return([analysis |-> Field(cachedResult, "analysis"),
                        fromCache |-> TRUE])
     IN IF hit /\ cachedResult = SyntaxError
        THEN \* line 219 throws, to the catch at line 405
             /\ inv' = [state |-> "done", article |-> article,
                        systemPrompt |-> systemPrompt, path |-> cachePath,
                        found |-> FilesAt(analysisCache, cachePath),
                        outcome |-> None, calls |-> 0, wrote |-> FALSE,
                        ret |-> Throw("SyntaxError")]
             /\ analysed' = Append(analysed, [index |-> index, ok |-> FALSE])
             /\ CatchAnalysisError
             /\ UNCHANGED <<llmCalls, finalResults>>
        ELSE IF hit
        THEN /\ finalResults' =
                  Append(finalResults, AnalysisResult(article, ret.value.analysis))
             /\ inv' = [state |-> "done", article |-> article,
                        systemPrompt |-> systemPrompt, path |-> cachePath,
                        found |-> FilesAt(analysisCache, cachePath),
                        outcome |-> None, calls |-> 0, wrote |-> FALSE, ret |-> ret]
             /\ analysed' = Append(analysed, [index |-> index, ok |-> TRUE])
             /\ NextArticle
             /\ UNCHANGED llmCalls
        ELSE /\ inv' = [state |-> "called", article |-> article,
                        systemPrompt |-> systemPrompt, path |-> cachePath,
                        found |-> {}, outcome |-> None, calls |-> 1,
                        wrote |-> FALSE, ret |-> None]
             /\ llmCalls' = llmCalls + 1
             /\ pc' = "llm"
             /\ UNCHANGED <<index, finalResults, analysed>>
  /\ UNCHANGED <<runs, ticks, now, startVars, cacheVars, fetchVars, articles,
                 exitVars, fetchHistory, sleeps, liveReturns>>

\* lines 226-252: what analyzeMotive does with the model's answer
AnalyzeCompletion(outcome) ==
  IF outcome.t = "error" THEN Throw("APIError") ELSE ParseAnalysis(outcome)

\* as a loop that waits after every live analysis, the last one included,
\* would do
AnalyzeReplyPausesAlways(outcome) ==
  /\ pc = "llm"
  /\ LET article == articles[index + 1]
         cachePath == AnalysisCachePath(systemPrompt, article)
         r == AnalyzeCompletion(outcome)
     IN IF r.kind = "throw"
        THEN /\ inv' = [inv EXCEPT !.state = "done", !.outcome = outcome, !.ret = r]
             /\ analysed' = Append(analysed, [index |-> index, ok |-> FALSE])
             /\ CatchAnalysisError
             /\ UNCHANGED <<analysisCache, finalResults, liveReturns>>
        ELSE /\ analysisCache' =
                  WriteFileSync(analysisCache, cachePath,
                    JSONStringify(AnalysisCacheEntry(article, r.value, now)), now)
             /\ inv' = [inv EXCEPT !.state = "done", !.outcome = outcome,
                          !.wrote = TRUE,
                          !.ret = Return([analysis |-> r.value, fromCache |-> FALSE])]
             /\ liveReturns' = liveReturns \cup
                  {[path |-> cachePath, article |-> article,
                    systemPrompt |-> systemPrompt, analysis |-> r.value]}
             /\ finalResults' = Append(finalResults, AnalysisResult(article, r.value))
             /\ analysed' = Append(analysed, [index |-> index, ok |-> TRUE])
             /\ pc' = "sleep" /\ UNCHANGED index
  /\ UNCHANGED <<runs, ticks, now, startVars, listCache, fetchVars, articles,
                 exitVars, fetchHistory, llmCalls, sleeps>>

\* lines 226-252 and 391-408: the model answers
AnalyzeReply(outcome) ==
  /\ pc = "llm"
  /\ LET article == articles[index + 1]
         cachePath == AnalysisCachePath(systemPrompt, article)
         r == AnalyzeCompletion(outcome)
     IN IF r.kind = "throw"
        THEN /\ inv' = [inv EXCEPT !.state = "done", !.outcome = outcome, !.ret = r]
             /\ analysed' = Append(analysed, [index |-> index, ok |-> FALSE])
             /\ CatchAnalysisError
             /\ UNCHANGED <<analysisCache, finalResults, liveReturns>>
        ELSE /\ analysisCache' =
                  WriteFileSync(analysisCache, cachePath,
                    JSONStringify(AnalysisCacheEntry(article, r.value, now)), now)
             /\ inv' = [inv EXCEPT !.state = "done", !.outcome = outcome,
                          !.wrote = TRUE,
                          !.ret = Return([analysis |-> r.value, fromCache |-> FALSE])]
             /\ liveReturns' = liveReturns \cup
                  {[path |-> cachePath, article |-> article,
                    systemPrompt |-> systemPrompt, analysis |-> r.value]}
             /\ finalResults' = Append(finalResults, AnalysisResult(article, r.value))
             /\ analysed' = Append(analysed, [index |-> index, ok |-> TRUE])
             /\ IF index < Len(articles) - 1
                THEN pc' = "sleep" /\ UNCHANGED index
                ELSE NextArticle
  /\ UNCHANGED <<runs, ticks, now, startVars, listCache, fetchVars, articles,
                 exitVars, fetchHistory, llmCalls, sleeps>>

\* lines 401-404: await sleep(CONFIG.respectRPM)
Sleep ==
  /\ pc = "sleep"
  /\ sleeps' = sleeps + 1
  /\ NextArticle
  /\ UNCHANGED <<runs, ticks, now, startVars, cacheVars, fetchVars, articles,
                 finalResults, exitVars, fetchHistory, analysed, inv, llmCalls,
                 liveReturns>>

\* lines 411-417: generateHTMLReport(finalResults); when it throws, the catch
\* calls it again with the same results, and that call throws out of runMAS
Report ==
  /\ pc = "loop" /\ index = Len(articles)
  /\ IF \A i \in DOMAIN finalResults : RowRenders(finalResults[i])
     THEN /\ reportCalls' = Append(reportCalls, finalResults)
          /\ reportFile' = [kind |-> "report", results |-> finalResults,
                             rows |-> [i \in DOMAIN finalResults |->
                                         Row(finalResults[i])]]
          /\ Exit(0)
     ELSE /\ reportCalls' = reportCalls \o <<finalResults, finalResults>>
          /\ reportFile' = reportFile
          /\ Exit(1)
  /\ UNCHANGED <<ticks, now, startVars, cacheVars, fetchVars, loopVars,
                 fetchHistory, loopHistory>>

(***************************************************************************)
(* The process is killed while fs.writeFileSync is at work on a cache      *)
(* file.  The call opens the file, which empties it, and then writes the   *)
(* text: the file is left as it was (killed before the open), cut short,   *)
(* or complete.  A text that is cut short is not JSON.                     *)
(***************************************************************************)
InterruptedWrites == {"before", "short", "complete"}
InterruptedWrite(dir, path, content, mtimeMs, left) ==
  CASE left = "before" -> dir
    [] left = "short" -> WriteFileSync(dir, path, Garbage, mtimeMs)
    [] left = "complete" -> WriteFileSync(dir, path, content, mtimeMs)

\* line 175, interrupted
InterruptListWrite(left) ==
  /\ pc = "fetchEnd" /\ Len(collectedArticles) > 0
  /\ listCache' = InterruptedWrite(listCache, ListCachePath(Topic),
                     JSONStringify(ArticlesValue(collectedArticles)), now, left)
  /\ fetchLog' = [fetchLog EXCEPT !.result = "killed"]
  /\ Exit(137)
  /\ UNCHANGED <<ticks, now, startVars, analysisCache, fetchVars, loopVars,
                 reportCalls, reportFile, providerRequests, gatekeeperCalls,
                 loopHistory>>

\* lines 245-250, interrupted
InterruptAnalysisWrite(outcome, left) ==
  /\ pc = "llm"
  /\ AnalyzeCompletion(outcome).kind = "return"
  /\ LET article == articles[index + 1]
         cachePath == AnalysisCachePath(systemPrompt, article)
     IN analysisCache' =
          InterruptedWrite(analysisCache, cachePath,
            JSONStringify(AnalysisCacheEntry(article,
                            AnalyzeCompletion(outcome).value, now)), now, left)
  /\ inv' = [inv EXCEPT !.state = "killed", !.outcome = outcome]
  /\ Exit(137)
  /\ UNCHANGED <<ticks, now, startVars, listCache, fetchVars, loopVars,
                 reportCalls, reportFile, fetchHistory, analysed, llmCalls,
                 sleeps, liveReturns>>

Next ==
  \/ Tick
  \/ \E n \in 0..MaxRequested, prompt \in SystemPrompts : StartRun(n, prompt)
  \/ FetchNewsCheckCache
  \/ \E response \in PageResponses : WhilePage(response)
  \/ WhileExit
  \/ ForEnd
  \/ ForSeen
  \/ \E outcome \in GatekeeperOutcomes : ForValidate(outcome)
  \/ ForPush
  \/ FetchNewsEnd
  \/ AnalyzeStart
  \/ \E outcome \in InvestigatorOutcomes : AnalyzeReply(outcome)
  \/ Sleep
  \/ Report

Spec == Init /\ [][Next]_vars

\* the same program, where a start may be killed in a cache write
CrashNext ==
  \/ Next
  \/ \E left \in InterruptedWrites : InterruptListWrite(left)
  \/ \E outcome \in InvestigatorOutcomes, left \in InterruptedWrites :
        InterruptAnalysisWrite(outcome, left)

CrashSpec == Init /\ [][CrashNext]_vars

(***************************************************************************)
(* The Reporter alone: generateHTMLReport is given results of any score    *)
(* and any text.                                                           *)
(***************************************************************************)
MaxTextLen == 3       \* most tokens in one free-text field
MaxScore == 11        \* largest motive_score number given to the Reporter

RECURSIVE TextsUpTo(_, _)
TextsUpTo(S, n) ==
  IF n = 0 THEN {<<>>}
  ELSE TextsUpTo(S, n - 1)
         \cup {Append(q, x) : q \in {r \in TextsUpTo(S, n - 1) : Len(r) = n - 1}, x \in S}

ReportTexts ==
  TextsUpTo({OpenScript, CloseScript, CloseScriptSpaced, OnAttribute,
             JavascriptScheme, "alert(1)"}, MaxTextLen)
ReportScores == {Undefined, JNull, JInf} \cup {JNum(n) : n \in 0..MaxScore}

\* an analysis with the given score, absent when undefined, and the given
\* text in one of its free-text fields
AnalysisWith(score, field, text) ==
  LET full == [FullAnalysis(score).f EXCEPT ![field] = JStr(text)]
  IN JObj(IF score = Undefined
          THEN [k \in DOMAIN full \ {"motive_score"} |-> full[k]]
          ELSE full)

ReportResults ==
  {AnalysisResult(NewsArticle(a), AnalysisWith(score, field, text)) :
     a \in {b \in ProviderArticles : b.title = <<"t1">>},
     score \in ReportScores, field \in {"summary", "critique"}, text \in ReportTexts}

\* a result without a score, of another article
UnscoredResult ==
  AnalysisResult(NewsArticle(CHOOSE b \in ProviderArticles : b.title = <<"t2">>),
                 AnalysisWith(Undefined, "summary", <<"alert(1)">>))

ReporterInit ==
  /\ pc = "loop" /\ runs = 0 /\ ticks = 0 /\ now = 0
  /\ newsMaxRequests = 0 /\ systemPrompt = SourcePrompt
  /\ listCache = {} /\ analysisCache = {}
  /\ page = 0 /\ collectedArticles = <<>> /\ seenUrls = {} /\ pageArticles = <<>>
  /\ completion = None /\ isRelevant = None
  /\ articles = <<>> /\ index = 0
  /\ finalResults \in {<<>>} \cup {<<r>> : r \in ReportResults}
                          \cup {<<r, UnscoredResult>> : r \in ReportResults}
  /\ reportCalls = <<>> /\ reportFile = None /\ exitStatus = None
  /\ fetchLog = NoFetch /\ providerRequests = <<>> /\ gatekeeperCalls = 0
  /\ analysed = <<>> /\ inv = NoInvocation /\ llmCalls = 0 /\ sleeps = 0
  /\ liveReturns = {} /\ previous = NoFetch

ReporterNext == Report

ReporterSpec == ReporterInit /\ [][ReporterNext]_vars

(***************************************************************************)
(* Properties.                                                             *)
(***************************************************************************)
FetchReturned == fetchLog.path # "none" /\ fetchLog.result = "return"
RunEnded == pc = "idle" /\ runs > 0

\* the articles whose analyzeMotive call returned, in the order of the calls
RECURSIVE SucceededFrom(_)
SucceededFrom(log) ==
  IF log = <<>> THEN <<>>
  ELSE IF Head(log).ok
       THEN <<articles[Head(log).index + 1]>> \o SucceededFrom(Tail(log))
       ELSE SucceededFrom(Tail(log))

SameArticles(results, list) ==
  /\ Len(results) = Len(list)
  /\ \A i \in DOMAIN results :
       /\ results[i].title = list[i].title
       /\ results[i].url = list[i].url
       /\ results[i].source = list[i].source

\* C1: when fetchNews has returned articles a1..an, runMAS attempts every one
\* of them exactly once and in order, whichever analyzeMotive calls raise, and
\* every call of generateHTMLReport is given exactly the articles whose
\* analysis succeeded, in processing order.
C1_FailureIsolation ==
  /\ \A i \in DOMAIN analysed : analysed[i].index = i - 1
  /\ Len(analysed) <= Len(articles)
  /\ (RunEnded /\ FetchReturned) =>
        /\ Len(analysed) = Len(articles)
        /\ Len(reportCalls) >= 1
        /\ \A c \in DOMAIN reportCalls :
              SameArticles(reportCalls[c], SucceededFrom(analysed))

\* the first of two articles failed, the second one is alone in the report
C1_Witness ==
  /\ RunEnded /\ FetchReturned
  /\ Len(articles) = 2
  /\ analysed = <<[index |-> 0, ok |-> FALSE], [index |-> 1, ok |-> TRUE]>>
  /\ Len(reportCalls) = 1
  /\ SameArticles(reportCalls[1], <<articles[2]>>)

\* C2: when analyzeMotive finds an analysis cache entry under the key of
\* (article, prompt), the step returns the analysis stored in that entry with
\* fromCache = true, and no call to the language model is issued.
C2_CacheHitNoCall ==
  [][ (/\ pc = "loop" /\ index < Len(articles)
       /\ ExistsSync(analysisCache, AnalysisCachePath(systemPrompt, articles[index + 1])))
      => LET article == articles[index + 1]
             entry == FileAt(analysisCache, AnalysisCachePath(systemPrompt, article))
         IN /\ llmCalls' = llmCalls
            /\ pc' # "llm"
            /\ inv'.state = "done"
            /\ inv'.ret = Return([analysis |-> entry.content.f.analysis,
                                  fromCache |-> TRUE])
            /\ finalResults' =
                 Append(finalResults, AnalysisResult(article, entry.content.f.analysis))
            /\ UNCHANGED analysisCache ]_vars

\* an analysis was answered from an entry an earlier start wrote
C2_Witness ==
  /\ inv.state = "done" /\ inv.found # {} /\ inv.ret.kind = "return"
  /\ inv.ret.value.fromCache
  /\ llmCalls = 0 /\ Len(finalResults) >= 1

LiveReturn ==
  inv.state = "done" /\ inv.ret.kind = "return" /\ ~inv.ret.value.fromCache
CacheReturn ==
  inv.state = "done" /\ inv.ret.kind = "return" /\ inv.ret.value.fromCache

\* C3: when analyzeMotive returns with fromCache = false, the analysis cache
\* holds an entry {title, url, analysis, timestamp} under the article's key
\* whose analysis equals the returned one; and a later analyzeMotive of the
\* same article under the same prompt is a cache hit that returns the analysis
\* the live call returned.
C3_Original ==
  /\ LiveReturn =>
       /\ ExistsSync(analysisCache, inv.path)
       /\ LET entry == JSONParse(FileAt(analysisCache, inv.path).content)
          IN /\ entry.t = "obj"
             /\ DOMAIN entry.f = {"title", "url", "analysis", "timestamp"}
             /\ entry.f.analysis = inv.ret.value.analysis
  /\ \A r \in liveReturns :
       (/\ inv.state \in {"called", "done"}
        /\ r.article = inv.article /\ r.systemPrompt = inv.systemPrompt
        /\ ~LiveReturn)
       => /\ CacheReturn
          /\ inv.ret.value.analysis = r.analysis

\* the completions for which C4 says analyzeMotive raises
FailedCompletions ==
  {CallError, NoChoices, Completion(Garbage), Completion(NoContent)}

\* C4: when the model call fails or the completion content does not parse as
\* JSON (an empty or absent content included), analyzeMotive raises, returns
\* no analysis and writes no analysis cache entry for the article.
C4_Original ==
  (inv.state = "done" /\ inv.outcome \in FailedCompletions) =>
     /\ inv.ret.kind = "throw"
     /\ ~inv.wrote
     /\ ~ExistsSync(analysisCache, inv.path)

\* the completions the Gatekeeper accepts by C5
BusinessCaseCompletions ==
  {Completion(c) : c \in {d \in GatekeeperContents :
      /\ d.t = "obj"
      /\ "is_business_case" \in DOMAIN d.f
      /\ d.f["is_business_case"] = [t |-> "bool", v |-> TRUE]}}

\* C5: validateRelevance never raises; it returns true exactly when the
\* completion parses to an object whose is_business_case is the boolean true,
\* and false for a call error, an empty content, malformed JSON or any other
\* JSON.
C5_GatekeeperFailSafe ==
  pc = "validated" =>
     /\ isRelevant.kind = "return"
     /\ isRelevant.value \in BOOLEAN
     /\ isRelevant.value <=> completion \in BusinessCaseCompletions

\* the model call failed and the Gatekeeper said "not relevant"
C5_Witness ==
  /\ pc = "validated" /\ completion = CallError
  /\ isRelevant = Return(FALSE)

\* the article-list entry fetchNews found, as the articles it holds
StoredArticles(file) == [i \in DOMAIN file.content.a |-> ArticleOf(file.content.a[i])]
FirstOf(list, n) == [i \in 1..n |-> list[i]]
Paging == pc \in {"while", "for", "validated", "fetchEnd"}

\* C6: when fetchNews finds an article-list entry that is younger than 24 h
\* and holds at least the requested number of articles, it returns the first
\* requested-many articles of that entry, and the process issues no provider
\* request and no Gatekeeper call.
C6_FreshCacheNoNetwork ==
  fetchLog.path # "none" =>
    \A file \in fetchLog.found :
      (fetchLog.age < CACHE_TTL /\ Len(file.content.a) >= newsMaxRequests) =>
         /\ fetchLog.path = "cache" /\ fetchLog.result = "return"
         /\ articles = FirstOf(StoredArticles(file), newsMaxRequests)
         /\ providerRequests = <<>> /\ gatekeeperCalls = 0
         /\ ~Paging

\* an entry of exactly the requested size, half a TTL old, was returned
C6_Witness ==
  /\ pc = "loop" /\ fetchLog.path = "cache"
  /\ fetchLog.age = CACHE_TTL \div 2
  /\ newsMaxRequests >= 1 /\ Len(articles) = newsMaxRequests
  /\ \E file \in fetchLog.found : Len(file.content.a) = newsMaxRequests

\* C7: an article-list entry that is expired (age >= 24 h) or holds fewer
\* articles than requested is treated like an absent one: fetchNews returns
\* nothing from it and sets up paging from page 1 with nothing collected and
\* nothing seen, the caches untouched; an expired entry is never returned,
\* whatever its size.
C7_StaleCacheIsAbsent ==
  [][ pc = "fetchNews" =>
        LET files == FilesAt(listCache, ListCachePath(Topic))
            stale == \/ files = {}
                     \/ \E f \in files :
                          \/ now - f.mtimeMs >= CACHE_TTL
                          \/ Len(f.content.a) < newsMaxRequests
        IN IF stale
           THEN /\ pc' = "while" /\ page' = 1
                /\ collectedArticles' = <<>> /\ seenUrls' = {}
                /\ pageArticles' = <<>> /\ articles' = <<>>
                /\ providerRequests' = <<>> /\ gatekeeperCalls' = 0
                /\ UNCHANGED cacheVars
           ELSE pc' = "loop" ]_vars

\* an expired entry that holds enough articles was passed over
C7_Witness ==
  /\ pc = "while" /\ page = 1 /\ providerRequests = <<>>
  /\ fetchLog.age >= CACHE_TTL
  /\ newsMaxRequests >= 1
  /\ \E file \in fetchLog.found : Len(file.content.a) >= newsMaxRequests

\* C8: for one article and two different prompt texts the analysis cache keys
\* differ, and the entry a cache hit returns was written under the prompt the
\* process runs with, never under another one.
C8_PromptInKey ==
  /\ \A a \in ProviderArticles, p1 \in SystemPrompts, p2 \in SystemPrompts :
        p1 # p2 => AnalysisCachePath(p1, NewsArticle(a)) # AnalysisCachePath(p2, NewsArticle(a))
  /\ CacheReturn =>
        /\ \E r \in liveReturns :
              /\ r.path = inv.path /\ r.article = inv.article
              /\ r.systemPrompt = inv.systemPrompt
        /\ \A r \in liveReturns :
              (r.article = inv.article /\ r.systemPrompt # inv.systemPrompt) =>
                 /\ r.path # inv.path
                 /\ \A file \in inv.found : file.path # r.path

\* the article has an entry under the other prompt, and the model is called
C8_Witness ==
  /\ pc = "llm" /\ inv.state = "called"
  /\ \E r \in liveReturns :
        r.article = inv.article /\ r.systemPrompt # inv.systemPrompt

\* C9, in the states
C9_AtMostRequested ==
  /\ Len(collectedArticles) <= newsMaxRequests
  /\ FetchReturned => Len(articles) <= newsMaxRequests
  /\ (FetchReturned /\ fetchLog.path = "network") => articles = collectedArticles
  /\ (fetchLog.path = "network" /\ fetchLog.stop # "none"
        /\ Len(collectedArticles) < newsMaxRequests) =>
        \/ fetchLog.stop \in {"error", "empty"}
        \/ Len(providerRequests) = MAX_PAGES

\* C9, in the steps
C9_OnlyAccepted ==
  /\ collectedArticles' # collectedArticles =>
        \/ pc = "idle"
        \/ /\ pc = "validated" /\ isRelevant = Return(TRUE)
           /\ collectedArticles' =
                Append(collectedArticles, NewsArticle(Head(pageArticles)))
  /\ (pc = "for" /\ pageArticles # <<>> /\ pageArticles' # pageArticles) =>
        \/ Len(collectedArticles) >= newsMaxRequests
        \/ Head(pageArticles).url \in seenUrls /\ pageArticles' = Tail(pageArticles)

\* C9: fetchNews never returns more than the requested number of articles, from
\* the cache or from the provider; the list it returns after paging is the
\* candidates the Gatekeeper accepted, in the order the provider gave them, and
\* it falls short of the requested number only when a page failed, a page was
\* empty, or three pages were requested; no candidate is passed over unless
\* its URL was seen or enough was collected.
C9_CappedInOrder == [](C9_AtMostRequested) /\ [][C9_OnlyAccepted]_vars

\* one article requested and accepted, an unseen candidate of the page left
C9_Witness ==
  /\ pc = "for" /\ newsMaxRequests = 1 /\ Len(collectedArticles) = 1
  /\ pageArticles # <<>> /\ Head(pageArticles).url \notin seenUrls

\* C10: after paging, fetchNews raises its terminal error exactly when no
\* article was accepted, and then leaves the topic's cache entry as it was;
\* and fetchNews never returns an empty list.
C10_Original ==
  /\ (fetchLog.path = "network" /\ fetchLog.result # "pending") =>
        (fetchLog.result = "throw" <=> Len(collectedArticles) = 0)
  /\ (fetchLog.path # "none" /\ fetchLog.result = "throw") =>
        FilesAt(listCache, ListCachePath(Topic)) = fetchLog.found
  /\ FetchReturned => Len(articles) > 0

\* C11, in the states: once the request for page k has failed, k requests
\* were made, paging is over, and fetchNews ends with what it had collected
C11_AfterFailure ==
  (fetchLog.path = "network" /\ fetchLog.stop = "error") =>
     /\ providerRequests = [i \in 1..page |-> i]
     /\ pc # "while" /\ pc # "for" /\ pc # "validated"
     /\ fetchLog.result = "return" =>
           articles = collectedArticles /\ Len(articles) > 0
     /\ fetchLog.result = "throw" => collectedArticles = <<>>
     /\ (pc = "idle" /\ collectedArticles # <<>>) => fetchLog.result = "return"

\* C11, in the steps: after the failure no request is made and the collected
\* articles stay as they were
C11_NoLaterPage ==
  (fetchLog.path = "network" /\ fetchLog.stop = "error" /\ pc # "idle") =>
     UNCHANGED <<providerRequests, collectedArticles, page, gatekeeperCalls>>

\* C11: when the provider request for page k fails, fetchNews requests no
\* later page and does not pass the error on: it returns the articles accepted
\* on the pages before k, and raises its empty-result error only when there
\* are none.
C11_PageFailureStopsPaging == [](C11_AfterFailure) /\ [][C11_NoLaterPage]_vars

\* the second page failed after one article of the two requested was accepted,
\* and fetchNews returned that article
C11_Witness ==
  /\ fetchLog.path = "network" /\ fetchLog.stop = "error"
  /\ fetchLog.result = "return"
  /\ providerRequests = <<1, 2>> /\ newsMaxRequests = 2
  /\ Len(articles) = 1

\* C12: in runMAS the pause after article i begins exactly when the analysis
\* of article i returned from a live model call and article i is not the last
\* one; a cache hit, a failed analysis and the last article are followed by
\* the next turn of the loop without a pause, and every pause is one sleep.
C12_PauseOnlyAfterLive ==
  [][ /\ (pc # "idle" /\ analysed' # analysed) =>
             IF /\ inv'.ret.kind = "return" /\ ~inv'.ret.value.fromCache
                /\ index < Len(articles) - 1
             THEN pc' = "sleep" /\ index' = index /\ sleeps' = sleeps
             ELSE pc' = "loop" /\ index' = index + 1 /\ sleeps' = sleeps
      /\ (pc \notin {"idle", "sleep"} /\ analysed' = analysed) =>
             pc' # "sleep" /\ sleeps' = sleeps
      /\ pc = "sleep" =>
             pc' = "loop" /\ sleeps' = sleeps + 1 /\ index' = index + 1 ]_vars

\* of two articles the first was analysed by the model and followed by the
\* one pause of the run, the second came from the cache
C12_Witness ==
  /\ RunEnded /\ Len(articles) = 2 /\ Len(finalResults) = 2
  /\ sleeps = 1 /\ llmCalls = 1 /\ CacheReturn

\* C13: every run of runMAS ends in one of two ways: when fetchNews returned
\* at least one article, generateHTMLReport is called exactly once with all
\* accumulated results, the report is written and the exit status is 0; when
\* fetchNews raised its terminal error, no report is written and the exit
\* status is not 0.
C13_Original ==
  RunEnded =>
    /\ (FetchReturned /\ Len(articles) >= 1) =>
          /\ reportCalls = <<finalResults>>
          /\ reportFile # None /\ reportFile.results = finalResults
          /\ exitStatus.code = 0
    /\ (fetchLog.path # "none" /\ fetchLog.result = "throw") =>
          /\ reportCalls = <<>> /\ reportFile = None
          /\ exitStatus.code # 0

ScoreOf(res) == Field(res.analysis, "motive_score")
ScoreIn(res, low, high) ==
  ScoreOf(res).t = "num" /\ ScoreOf(res).v \in low..high
ScoreAbsent(res) == ScoreOf(res) = Undefined \/ ScoreOf(res) = JNull

\* C14: for every result of a written report the risk tier follows the
\* motive_score: 8..10 is high-risk, 4..7 is med-risk, 0..3 or an absent score
\* is low-risk; the badge shows the score when it is present and "N/A" when
\* it is null or undefined.
C14_RiskTiers ==
  reportFile # None =>
    \A i \in DOMAIN reportFile.results :
      LET res == reportFile.results[i]
          row == reportFile.rows[i]
      IN /\ ScoreIn(res, 8, 10) => row.scoreClass = "high-risk"
         /\ ScoreIn(res, 4, 7) => row.scoreClass = "med-risk"
         /\ (ScoreIn(res, 0, 3) \/ ScoreAbsent(res)) => row.scoreClass = "low-risk"
         /\ ScoreAbsent(res) => row.badge = JStr(<<"N/A">>)
         /\ ~ScoreAbsent(res) => row.badge = TemplateString(ScoreOf(res))

\* a report with a score of 8 in the high tier and a result without a score
\* that reads N/A in the low tier
C14_Witness ==
  /\ reportFile # None /\ Len(reportFile.rows) = 2
  /\ ScoreOf(reportFile.results[1]) = JNum(8)
  /\ reportFile.rows[1].scoreClass = "high-risk"
  /\ reportFile.rows[1].badge = TemplateString(JNum(8))
  /\ "motive_score" \notin DOMAIN reportFile.results[2].analysis.f
  /\ reportFile.rows[2].scoreClass = "low-risk"
  /\ reportFile.rows[2].badge = JStr(<<"N/A">>)

C17_ScriptElementRemoved ==
  reportFile # None =>
    \A i \in DOMAIN reportFile.rows :
      \A k \in AnalysisTextFields :
        LET text == reportFile.results[i].analysis.f[k].v
        IN (\/ text = <<OpenScript, "alert(1)", CloseScript>>
            \/ text = <<"alert(1)", OpenScript, CloseScript>>)
           => \A j \in DOMAIN reportFile.rows[i].formattedAnalysis[k] :
                 reportFile.rows[i].formattedAnalysis[k][j] \notin ScriptTags

\* a motive_score as C15 allows it: absent (no field, or null), or an integer
\* in 1..10
ScoreAllowed(analysis) ==
  \/ analysis.t = "obj" /\ "motive_score" \notin DOMAIN analysis.f
  \/ analysis.t = "obj" /\ Field(analysis, "motive_score") = JNull
  \/ /\ analysis.t = "obj" /\ "motive_score" \in DOMAIN analysis.f
     /\ analysis.f["motive_score"].t = "num"
     /\ analysis.f["motive_score"].v \in 1..10

\* C15: every analysis that analyzeMotive returns or stores in the analysis
\* cache, and so every result given to the Reporter, has a motive_score that
\* is absent or an integer in 1..10, whatever JSON the model returned.
C15_Original ==
  /\ (inv.state = "done" /\ inv.ret.kind = "return") =>
        ScoreAllowed(inv.ret.value.analysis)
  /\ \A file \in analysisCache : ScoreAllowed(JSONParse(file.content).f.analysis)
  /\ \A i \in DOMAIN finalResults : ScoreAllowed(finalResults[i].analysis)

DistinctUrls(list) ==
  \A i \in DOMAIN list : \A j \in DOMAIN list : i # j => list[i].url # list[j].url

\* C16, in the states
C16_NoRepeatedUrl ==
  /\ DistinctUrls(collectedArticles)
  /\ (FetchReturned /\ fetchLog.path = "network") => DistinctUrls(articles)
  /\ gatekeeperCalls = Cardinality(seenUrls)
  /\ \A i \in DOMAIN collectedArticles : collectedArticles[i].url \in seenUrls

\* C16, in the steps
C16_GatekeeperOncePerUrl ==
  pc # "idle" =>
     /\ seenUrls \subseteq seenUrls'
     /\ gatekeeperCalls' # gatekeeperCalls =>
           /\ gatekeeperCalls' = gatekeeperCalls + 1
           /\ Head(pageArticles).url \notin seenUrls
           /\ seenUrls' = seenUrls \cup {Head(pageArticles).url}

\* C16: the list fetchNews returns after paging holds no two articles of one
\* URL, and within one fetch the Gatekeeper is asked at most once about a URL:
\* every call is about a URL not seen before in this fetch, also when the
\* provider repeats an article on the same or a later page.
C16_DedupByUrl == [](C16_NoRepeatedUrl) /\ [][C16_GatekeeperOncePerUrl]_vars

\* the second page brought only the URL accepted from the first page again:
\* it is through without a second Gatekeeper call
C16_Witness ==
  /\ pc = "for" /\ page = 2 /\ providerRequests = <<1, 2>>
  /\ pageArticles = <<>> /\ newsMaxRequests = 2
  /\ gatekeeperCalls = 1 /\ Len(collectedArticles) = 1

InPagingLoop == pc \in {"while", "for", "validated"}

\* a measure of what the paging loop has left to do: the pages left, then the
\* candidates of the page left, then the position within one candidate
PagingVariant ==
  (MAX_PAGES + 1 - page) * (2 * BatchSize + 3)
    + (IF pc = "while" THEN 2 * BatchSize + 2
       ELSE 2 * Len(pageArticles) + (IF pc = "for" THEN 1 ELSE 0))

\* C18, in the states: the requests of one fetch are for the pages 1, 2, 3 in
\* this order, at most MAX_PAGES of them
C18_PagesInOrder ==
  /\ Len(providerRequests) <= MAX_PAGES
  /\ providerRequests = [i \in 1..Len(providerRequests) |-> i]
  /\ InPagingLoop => PagingVariant >= 0

\* C18, in the steps: a request is made only while fewer than requested are
\* accepted and no page was empty or failed, and every step of the loop
\* leaves it or takes the measure down
C18_StopsPaging ==
  /\ (pc # "idle" /\ providerRequests' # providerRequests) =>
        /\ providerRequests' = Append(providerRequests, Len(providerRequests) + 1)
        /\ Len(collectedArticles) < newsMaxRequests
        /\ fetchLog.stop = "none"
  /\ InPagingLoop =>
        \/ pc' = "fetchEnd"
        \/ InPagingLoop' /\ PagingVariant' < PagingVariant

\* C18: one call of fetchNews makes at most 3 provider requests, for the
\* pages 1, 2, 3 in increasing order, and makes none once the requested
\* number is accepted, a page came back empty or a request failed; every
\* step of the paging loop takes a bounded measure down, so the loop ends.
C18_BoundedPaging == [](C18_PagesInOrder) /\ [][C18_StopsPaging]_vars

\* three pages were requested and the loop ended short of the requested number
C18_Witness ==
  /\ pc = "fetchEnd" /\ providerRequests = <<1, 2, 3>>
  /\ fetchLog.stop = "condition"
  /\ Len(collectedArticles) < newsMaxRequests

\* the article-list entry of the topic holds exactly this list
ListCacheHolds(list) ==
  /\ ExistsSync(listCache, ListCachePath(Topic))
  /\ ArticlesOf(JSONParse(FileAt(listCache, ListCachePath(Topic)).content)) = list

\* the process before this one fetched from the provider with success, and
\* this one has asked fetchNews for the same number within 24 h
RefetchSameCount ==
  /\ previous.path = "network" /\ previous.result = "return"
  /\ fetchLog.path # "none"
  /\ newsMaxRequests = previous.requested
  /\ fetchLog.age < CACHE_TTL

ServedFromCache ==
  /\ fetchLog.path = "cache" /\ fetchLog.result = "return"
  /\ articles = previous.articles
  /\ providerRequests = <<>>

\* C19: after fetchNews succeeds on the network path the topic's article-list
\* entry equals the list it returned, and a fetchNews that follows for the
\* same topic with the same requested count within 24 h returns that list
\* from the cache without a provider request.
C19_Original ==
  /\ (FetchReturned /\ fetchLog.path = "network") => ListCacheHolds(articles)
  /\ RefetchSameCount => ServedFromCache

\* C19, amended: the entry equals the returned list; the following fetchNews
\* with the same count returns it from the cache without a provider request
\* when the list holds the requested number of articles, and goes to the
\* provider again when the list fell short of it.
C19_CacheHoldsReturnedList ==
  /\ (FetchReturned /\ fetchLog.path = "network") => ListCacheHolds(articles)
  /\ (RefetchSameCount /\ Len(previous.articles) = previous.requested) =>
        ServedFromCache
  /\ (RefetchSameCount /\ Len(previous.articles) < previous.requested) =>
        fetchLog.path = "network"

\* two articles were requested and fetched, and half a TTL later the same
\* request was served with them from the cache
C19_Witness ==
  /\ RefetchSameCount /\ previous.requested = 2 /\ Len(previous.articles) = 2
  /\ fetchLog.age = CACHE_TTL \div 2
  /\ pc = "loop" /\ articles = previous.articles /\ fetchLog.path = "cache"

\* C20: cache writes are atomic at the file level: when the process is
\* interrupted at any point of a write in fetchNews or analyzeMotive, every
\* cache file holds complete JSON, the earlier content or the new one, never
\* a text cut short; so no later run fails on reading a cache file.
C20_Original ==
  /\ \A file \in listCache \cup analysisCache :
        JSONParse(file.content) # SyntaxError
  /\ fetchLog.path = "cache" => fetchLog.result # "throw"
  /\ (inv.state = "done" /\ inv.found # {}) => inv.ret.kind = "return"

\* C20, the consequence alone: a run after the interruption fails on reading
\* the article list, or loses an article on reading its analysis
C20_NoReadFailure ==
  /\ fetchLog.path = "cache" => fetchLog.result # "throw"
  /\ (inv.state = "done" /\ inv.found # {}) => inv.ret.kind = "return"

\* C21: within one run of runMAS any two consecutive live calls of the
\* language model are separated by a rate-limit pause, also when the earlier
\* call ended in an analysis error.  A pause only ever follows a live call, one
\* pause at most, so this says: when the k-th live call of the run is issued,
\* k - 1 pauses have been made.
C21_Original ==
  llmCalls >= 1 => sleeps >= llmCalls - 1

\* the four free-text fields are there, as strings
TextFieldsPresent(analysis) ==
  /\ analysis.t = "obj"
  /\ \A k \in AnalysisTextFields :
        k \in DOMAIN analysis.f /\ analysis.f[k].t = "str"

\* C22: every result runMAS passes to generateHTMLReport has the four
\* free-text fields summary, seller_description, hidden_motive and critique,
\* whatever valid JSON the model returned or the analysis cache holds; so the
\* rendering of one article's analysis never aborts the report: a run that
\* calls generateHTMLReport leaves the report written.
C22_Original ==
  /\ \A i \in DOMAIN finalResults : TextFieldsPresent(finalResults[i].analysis)
  /\ \A c \in DOMAIN reportCalls : \A i \in DOMAIN reportCalls[c] :
        TextFieldsPresent(reportCalls[c][i].analysis)
  /\ (RunEnded /\ reportCalls # <<>>) => reportFile # None

====
